---- MODULE Spec2Model ----
(***************************************************************************)
(* Ownership / pricing state machine of the word registry                  *)
(* (backend/app/services.py, admin_service.py, routes/*.py, utils.py).     *)
(*                                                                         *)
(* The store is PostgreSQL accessed through one SQLAlchemy session per     *)
(* request.  A session reads committed rows, keeps its changes private     *)
(* until db.commit(), and at commit flushes an UPDATE that carries only    *)
(* the columns whose value differs from the value the session loaded.      *)
(* SELECT ... FOR UPDATE takes the row lock until commit / rollback; an    *)
(* UPDATE of a row waits while another session holds that lock.            *)
(*                                                                         *)
(* Time is counted in hours, prices in whole currency units.               *)
(***************************************************************************)
EXTENDS Integers, Sequences, FiniteSets, TLC

\* ---------------------------------------------------------------- bounds
MaxTime == 2
MaxTx == 2
MaxNewPrice == 2
MaxReports == 2
\* requests sent beyond the limit of a window
MaxExcess == 2

\* ------------------------------------------------------- program constants
PriceIncrement == 1
MintPrice == 51
\* the fee recorded as the price after the mint
CreationFee_next_price == MintPrice

CreationFee == 50
MintLockoutHours == 50
InitialPrice == 1
report_threshold == 2

Null == "NULL"
NullTime == -1

Procs == {1, 2}
Texts == {"a", "b"}
InputTexts == {"a", "A", "b", " B", "b2", ""}
\* owner_name / owner_message pairs of the purchase requests
Buyers == {<<"ann", "hi">>, <<"bob", "yo">>}
\* optional owner_name / owner_message of a reset request
ResetOwners == {<<Null, Null>>, <<"eve", "adm">>, <<"eve", Null>>}
NewPrices == 1..MaxNewPrice
\* texts of the report requests and word ids of the moderation requests
\* (a word's id is its text; "zz" is an id no word has)
ReportTexts == {"a", "A", "b2"}
WordIds == {"a", "zz"}
Actions == {"approve", "reject", "protect", "delete"}

VARIABLES words, transactions, message_reports, now, rowlock, uniq, pc, sess, last,
          limiter, payment_intent

vars == <<words, transactions, message_reports, now, rowlock, uniq, pc, sess, last,
          limiter, payment_intent>>

\* ------------------------------------------------------------ conversions
\* str.lower() on the request texts
Lower(t) ==
    CASE t = "A" -> "a"
      [] t = " B" -> " b"
      [] OTHER -> t

\* str.strip() on the (lower-cased) request texts
Strip(t) ==
    CASE t = " b" -> "b"
      [] t = " B" -> "B"
      [] OTHER -> t

\* str.isalpha() and str.isascii() on the normalised request texts
IsAlpha(t) == t \in {"a", "b", "A", "B"}

\* ------------------------------------------------------------- data model
Word(price, owner, message, lockout) ==
    [price |-> price, owner_name |-> owner, owner_message |-> message,
     lockout_ends_at |-> lockout, moderation_status |-> Null,
     moderated_at |-> NullTime]

Transaction(word_id, buyer, paid, admin) ==
    [word_id |-> word_id, buyer_name |-> buyer, price_paid |-> paid,
     is_admin_action |-> admin]

NoSession == [op |-> "none"]

\* the limiter's storage for one client address and one endpoint: nothing counted
NoWindow(endpoint) == [endpoint |-> endpoint, hits |-> 0, expires |-> NullTime]

\* no PaymentIntent has been created
NoIntent == [status |-> "none"]

\* the response of the request that returned last
Response(op, kind) == [op |-> op, kind |-> kind]

\* ------------------------------------------------------------ availability
\* the comparison turned around
is_word_available_flipped(lockout_ends_at, t) ==
    IF lockout_ends_at = NullTime THEN TRUE ELSE t <= lockout_ends_at

is_word_available(lockout_ends_at, t) ==
    IF lockout_ends_at = NullTime THEN TRUE ELSE t >= lockout_ends_at

\* SELECT ... FOR UPDATE is granted only while no other session holds the row
\* a plain SELECT, which never waits
LockFree_unlocked(t) == TRUE

\* the rows SELECT ... FOR UPDATE locks: those the filter on Word.text selects
\* a lock on the whole table
RowsLocked_all(t) == Texts

RowsLocked(t) == {u \in Texts : u = t}

LockFree(t) == \A u \in RowsLocked(t) : rowlock[u] = 0

\* the claim leaving the price as it found it
steal_new_price_unchanged(purchase_price) == purchase_price

\* steal_word: the price after the purchase and the end of the new lockout
steal_new_price(purchase_price) == purchase_price + PriceIncrement

\* the lockout taken from the price after the purchase
steal_lockout_ends_at_new_price(t, purchase_price) == t + steal_new_price(purchase_price)

steal_lockout_ends_at(t, purchase_price) == t + purchase_price

\* --------------------------------------------------------- unit of work
\* The UPDATE emitted at flush: a column is written only when the session's
\* object differs from the value the session loaded.
FlushUpdate(committed, loaded, obj) ==
    [c \in DOMAIN committed |->
        IF obj[c] # loaded[c] THEN obj[c] ELSE committed[c]]

\* Requests that will still append a Transaction row
Writers == {p \in Procs : pc[p] # "idle" /\ sess[p].op \in {"steal", "add", "reset"}}

\* Requests that will still insert a MessageReport row for word t
Reporters(t) == {p \in Procs : pc[p] = "report_checked" /\ sess[p].text = t}

CanAppend == Len(transactions) + Cardinality(Writers) < MaxTx

Finish(p, op, kind) ==
    /\ pc' = [pc EXCEPT ![p] = "idle"]
    /\ sess' = [sess EXCEPT ![p] = NoSession]
    /\ last' = Response(op, kind)

\* a session ending with its row lock kept
Release_none(p) == rowlock

\* commit or rollback gives back every row lock of the session
Release(p) == [t \in Texts |-> IF rowlock[t] = p THEN 0 ELSE rowlock[t]]

Init ==
    /\ words = [t \in {"a"} |-> Word(InitialPrice, Null, Null, NullTime)]
    /\ transactions = <<>>
    /\ message_reports = [t \in Texts |-> 0]
    /\ now = 0
    /\ rowlock = [t \in Texts |-> 0]
    /\ uniq = [t \in Texts |-> 0]
    /\ pc = [p \in Procs |-> "idle"]
    /\ sess = [p \in Procs |-> NoSession]
    /\ last = Response("none", "none")
    /\ limiter = NoWindow("none")
    /\ payment_intent = NoIntent

\* a registry that holds both words, unowned, at the initial price
InitPair ==
    /\ words = [t \in Texts |-> Word(InitialPrice, Null, Null, NullTime)]
    /\ transactions = <<>>
    /\ message_reports = [t \in Texts |-> 0]
    /\ now = 0
    /\ rowlock = [t \in Texts |-> 0]
    /\ uniq = [t \in Texts |-> 0]
    /\ pc = [p \in Procs |-> "idle"]
    /\ sess = [p \in Procs |-> NoSession]
    /\ last = Response("none", "none")
    /\ limiter = NoWindow("none")
    /\ payment_intent = NoIntent

\* ------------------------------------------------------------------ clock
Tick ==
    /\ now < MaxTime
    /\ now' = now + 1
    /\ UNCHANGED <<words, transactions, message_reports, rowlock, uniq, pc, sess, last, limiter, payment_intent>>

\* ------------------------------------------------- WordService.steal_word
\* SELECT ... FOR UPDATE: no row (404), the locked current row, or a wait
\* for the session that holds the row lock
StealBegin(p, raw, buyer) ==
    /\ pc[p] = "idle"
    /\ CanAppend
    /\ LET t == Lower(raw) IN
        IF t \notin DOMAIN words
        THEN /\ Finish(p, "steal", "NotFound")
             /\ UNCHANGED rowlock
        ELSE IF LockFree(t)
        THEN /\ rowlock' = [rowlock EXCEPT ![t] = p]
             /\ sess' = [sess EXCEPT ![p] = [op |-> "steal", text |-> t,
                            name |-> buyer[1], msg |-> buyer[2],
                            loaded |-> words[t], word |-> words[t]]]
             /\ pc' = [pc EXCEPT ![p] = "steal_locked"]
             /\ UNCHANGED last
        ELSE /\ sess' = [sess EXCEPT ![p] = [op |-> "steal", text |-> t,
                            name |-> buyer[1], msg |-> buyer[2]]]
             /\ pc' = [pc EXCEPT ![p] = "steal_wait"]
             /\ UNCHANGED <<rowlock, last>>
    /\ UNCHANGED <<words, transactions, message_reports, now, uniq, limiter, payment_intent>>

\* the row lock is granted to the waiting SELECT, which reads the current row
StealLock(p) ==
    /\ pc[p] = "steal_wait"
    /\ LET t == sess[p].text IN
        /\ LockFree(t)
        /\ rowlock' = [rowlock EXCEPT ![t] = p]
        /\ sess' = [sess EXCEPT ![p] = [op |-> "steal", text |-> t,
                       name |-> sess[p].name, msg |-> sess[p].msg,
                       loaded |-> words[t], word |-> words[t]]]
        /\ pc' = [pc EXCEPT ![p] = "steal_locked"]
    /\ UNCHANGED <<words, transactions, message_reports, now, uniq, last, limiter, payment_intent>>

\* availability check, then the in-session update and the pending Transaction
StealCheck(p) ==
    /\ pc[p] = "steal_locked"
    /\ LET s == sess[p]
           word == s.word
           purchase_price == word.price
           new_price == steal_new_price(purchase_price)
           lockout_ends_at == steal_lockout_ends_at(now, purchase_price)
       IN IF ~is_word_available(word.lockout_ends_at, now)
          THEN /\ Finish(p, "steal", "Locked")
               /\ rowlock' = Release(p)
          ELSE /\ sess' = [sess EXCEPT ![p] =
                    [op |-> "steal", text |-> s.text, name |-> s.name, msg |-> s.msg,
                     at |-> now, loaded |-> s.loaded,
                     word |-> [word EXCEPT
                                          !.owner_name = s.name,
                                          !.owner_message = s.msg,
                                          !.price = new_price,
                                          !.lockout_ends_at = lockout_ends_at]]]
               /\ pc' = [pc EXCEPT ![p] = "steal_ready"]
               /\ UNCHANGED <<rowlock, last>>
    /\ UNCHANGED <<words, transactions, message_reports, now, uniq, limiter, payment_intent>>

\* the commit without db.add(transaction)
StealCommit_no_transaction(p) ==
    /\ pc[p] = "steal_ready"
    /\ LET s == sess[p] IN
        words' = [words EXCEPT ![s.text] = FlushUpdate(words[s.text], s.loaded, s.word)]
    /\ rowlock' = Release(p)
    /\ Finish(p, "steal", "ok")
    /\ UNCHANGED <<transactions, message_reports, now, uniq, limiter, payment_intent>>

\* db.commit(): the UPDATE and the INSERT become visible together
StealCommit(p) ==
    /\ pc[p] = "steal_ready"
    /\ LET s == sess[p] IN
        /\ words' = [words EXCEPT ![s.text] = FlushUpdate(words[s.text], s.loaded, s.word)]
        /\ transactions' = Append(transactions,
               Transaction(s.text, s.name, s.loaded.price, FALSE))
    /\ rowlock' = Release(p)
    /\ Finish(p, "steal", "ok")
    /\ UNCHANGED <<message_reports, now, uniq, limiter, payment_intent>>

\* SQLAlchemyError anywhere inside the try block: rollback, HTTP 500
StealFail(p) ==
    /\ pc[p] \in {"steal_wait", "steal_locked", "steal_ready"}
    /\ rowlock' = Release(p)
    /\ Finish(p, "steal", "StorageFailure")
    /\ UNCHANGED <<words, transactions, message_reports, now, uniq, limiter, payment_intent>>

\* ------------------------------------------------------------ content gate
\* kinds of user content, by the first pattern of validate_content they meet
ContentKinds == {"plain", "url", "email", "handle", "phone", "profane"}

\* what the classifier does with a text: scores it acceptable, scores it
\* above the threshold, or raises
Oracles == {"clean", "toxic", "error"}

\* the classifier raising counted as a block
detoxify_blocks_word_fail_closed(oracle) == oracle # "clean"

\* add_word: the scores are above 0.7; an exception of the model is printed
\* and passed over
detoxify_blocks_word(oracle) == oracle = "toxic"

\* validate_content: (is_valid, error_message)
validate_content(content, oracle) ==
    IF content = "url" THEN <<FALSE, "URLs and web links are not allowed">>
    ELSE IF content = "email" THEN <<FALSE, "Email addresses are not allowed">>
    ELSE IF content = "handle" THEN <<FALSE, "Social media handles are not allowed">>
    ELSE IF content = "phone" THEN <<FALSE, "Phone numbers are not allowed">>
    ELSE IF content = "profane" THEN <<FALSE, "Profanity is not allowed">>
    ELSE IF oracle = "toxic" THEN <<FALSE, "Content contains inappropriate or toxic language">>
    ELSE <<TRUE, "">>

\* POST /api/words/validate-content, for one of the two texts
ValidateContent(content, oracle) ==
    /\ last' = Response("validate",
                   IF validate_content(content, oracle)[1] THEN "ok" ELSE "ValidationFailed")
    /\ last' # last
    /\ UNCHANGED <<words, transactions, message_reports, now, rowlock, uniq, pc, sess, limiter, payment_intent>>

\* --------------------------------------------------- WordService.add_word
\* normalisation, existence check, format checks, toxicity oracle and the
\* construction of the new Word
AddCheck(p, raw, buyer, oracle) ==
    /\ pc[p] = "idle"
    /\ CanAppend
    /\ LET word_text == Strip(Lower(raw)) IN
        IF word_text \in DOMAIN words
        THEN Finish(p, "add", "Conflict")
        ELSE IF word_text = "" \/ ~IsAlpha(word_text) \/ detoxify_blocks_word(oracle)
        THEN Finish(p, "add", "ValidationFailed")
        ELSE /\ pc' = [pc EXCEPT ![p] = "add_checked"]
             /\ sess' = [sess EXCEPT ![p] =
                   [op |-> "add", text |-> word_text, name |-> buyer[1],
                    msg |-> buyer[2], at |-> now,
                    word |-> Word(MintPrice, buyer[1], buyer[2], now + MintLockoutHours)]]
             /\ UNCHANGED last
    /\ UNCHANGED <<words, transactions, message_reports, now, rowlock, uniq, limiter, payment_intent>>

\* db.flush(): the INSERT meets the unique index on words.text
AddFlush(p) ==
    /\ pc[p] = "add_checked"
    /\ LET t == sess[p].text IN
        IF t \in DOMAIN words
        THEN /\ Finish(p, "add", "StorageFailure")
             /\ UNCHANGED uniq
        ELSE /\ uniq[t] = 0
             /\ uniq' = [uniq EXCEPT ![t] = p]
             /\ pc' = [pc EXCEPT ![p] = "add_flushed"]
             /\ UNCHANGED <<sess, last>>
    /\ UNCHANGED <<words, transactions, message_reports, now, rowlock, limiter, payment_intent>>

AddCommit(p) ==
    /\ pc[p] = "add_flushed"
    /\ LET s == sess[p] IN
        /\ words' = [t \in DOMAIN words \cup {s.text} |->
                        IF t = s.text THEN s.word ELSE words[t]]
        /\ transactions' = Append(transactions,
               Transaction(s.text, s.name, CreationFee, FALSE))
    /\ uniq' = [t \in Texts |-> IF uniq[t] = p THEN 0 ELSE uniq[t]]
    /\ Finish(p, "add", "ok")
    /\ UNCHANGED <<message_reports, now, rowlock, limiter, payment_intent>>

AddFail(p) ==
    /\ pc[p] \in {"add_checked", "add_flushed"}
    /\ uniq' = [t \in Texts |-> IF uniq[t] = p THEN 0 ELSE uniq[t]]
    /\ Finish(p, "add", "StorageFailure")
    /\ UNCHANGED <<words, transactions, message_reports, now, rowlock, limiter, payment_intent>>

\* ------------------------------------------------- AdminService.reset_word
\* plain SELECT (no row lock), then the in-session changes
ResetRead(p, raw, new_price, owner) ==
    /\ pc[p] = "idle"
    /\ CanAppend
    /\ LET t == Lower(raw)
           owner_name == owner[1]
           owner_message == owner[2]
       IN
        IF t \notin DOMAIN words
        THEN Finish(p, "reset", "NotFound")
        ELSE /\ pc' = [pc EXCEPT ![p] = "reset_ready"]
             /\ sess' = [sess EXCEPT ![p] =
                   [op |-> "reset", text |-> t, new_price |-> new_price,
                    name |-> owner_name, msg |-> owner_message, at |-> now,
                    loaded |-> words[t],
                    word |-> IF owner_name # Null
                             THEN [words[t] EXCEPT
                                     !.price = new_price,
                                     !.owner_name = owner_name,
                                     !.owner_message = owner_message,
                                     !.lockout_ends_at = now + new_price]
                             ELSE [words[t] EXCEPT
                                     !.price = new_price,
                                     !.owner_name = Null,
                                     !.owner_message = Null,
                                     !.lockout_ends_at = NullTime]]]
             /\ UNCHANGED last
    /\ UNCHANGED <<words, transactions, message_reports, now, rowlock, uniq, limiter, payment_intent>>

\* the commit without db.add(transaction)
ResetCommit_no_transaction(p) ==
    /\ pc[p] = "reset_ready"
    /\ LET s == sess[p] IN
        /\ rowlock[s.text] = 0
        /\ words' = [words EXCEPT ![s.text] = FlushUpdate(words[s.text], s.loaded, s.word)]
    /\ Finish(p, "reset", "ok")
    /\ UNCHANGED <<transactions, message_reports, now, rowlock, uniq, limiter, payment_intent>>

\* db.commit(): the UPDATE waits for a row lock held by a claim
ResetCommit(p) ==
    /\ pc[p] = "reset_ready"
    /\ LET s == sess[p] IN
        /\ rowlock[s.text] = 0
        /\ words' = [words EXCEPT ![s.text] = FlushUpdate(words[s.text], s.loaded, s.word)]
        /\ transactions' = Append(transactions,
               Transaction(s.text, IF s.name # Null THEN s.name ELSE "ADMIN_RESET",
                           s.new_price, TRUE))
    /\ Finish(p, "reset", "ok")
    /\ UNCHANGED <<message_reports, now, rowlock, uniq, limiter, payment_intent>>

\* reset_word has no except clause: a store error leaves it as it was raised
ResetFail(p) ==
    /\ pc[p] = "reset_ready"
    /\ Finish(p, "reset", "RawException")
    /\ UNCHANGED <<words, transactions, message_reports, now, rowlock, uniq, limiter, payment_intent>>

\* ---------------------------------------------- POST /api/words/{w}/report
\* the route without the check of the protected status
ReportCheck_unprotected(p, raw) ==
    /\ pc[p] = "idle"
    /\ LET t == Lower(raw) IN
        IF t \notin DOMAIN words
        THEN Finish(p, "report", "NotFound")
        ELSE IF words[t].owner_message = Null
        THEN Finish(p, "report", "Rejected")
        ELSE /\ message_reports[t] + Cardinality(Reporters(t)) < MaxReports
             /\ pc' = [pc EXCEPT ![p] = "report_checked"]
             /\ sess' = [sess EXCEPT ![p] = [op |-> "report", text |-> t]]
             /\ UNCHANGED last
    /\ UNCHANGED <<words, transactions, message_reports, now, rowlock, uniq, limiter, payment_intent>>

\* route: look the word up, refuse when there is no message or it is protected
ReportCheck(p, raw) ==
    /\ pc[p] = "idle"
    /\ LET t == Lower(raw) IN
        IF t \notin DOMAIN words
        THEN Finish(p, "report", "NotFound")
        ELSE IF words[t].owner_message = Null
        THEN Finish(p, "report", "Rejected")
        ELSE IF words[t].moderation_status = "protected"
        THEN Finish(p, "report", "Rejected")
        ELSE /\ message_reports[t] + Cardinality(Reporters(t)) < MaxReports
             /\ pc' = [pc EXCEPT ![p] = "report_checked"]
             /\ sess' = [sess EXCEPT ![p] = [op |-> "report", text |-> t]]
             /\ UNCHANGED last
    /\ UNCHANGED <<words, transactions, message_reports, now, rowlock, uniq, limiter, payment_intent>>

\* AdminService.report_message: INSERT the report and commit
ReportInsert(p) ==
    /\ pc[p] = "report_checked"
    /\ message_reports' = [message_reports EXCEPT ![sess[p].text] = @ + 1]
    /\ pc' = [pc EXCEPT ![p] = "report_added"]
    /\ UNCHANGED <<words, transactions, now, rowlock, uniq, sess, last, limiter, payment_intent>>

\* the escalation without the test of the current status
ReportCount_any_status(p) ==
    /\ pc[p] = "report_added"
    /\ LET t == sess[p].text
           report_count == message_reports[t]
           word == words[t]
       IN IF report_count >= report_threshold
          THEN /\ sess' = [sess EXCEPT ![p] =
                     [op |-> "report", text |-> t, loaded |-> word,
                      word |-> [word EXCEPT !.moderation_status = "pending"]]]
               /\ pc' = [pc EXCEPT ![p] = "report_ready"]
               /\ UNCHANGED last
          ELSE Finish(p, "report", "ok")
    /\ UNCHANGED <<words, transactions, message_reports, now, rowlock, uniq, limiter, payment_intent>>

\* AdminService.report_message: count the reports, load the word, escalate
ReportCount(p) ==
    /\ pc[p] = "report_added"
    /\ LET t == sess[p].text
           report_count == message_reports[t]
           word == words[t]
       IN IF report_count >= report_threshold /\ word.moderation_status = Null
          THEN /\ sess' = [sess EXCEPT ![p] =
                     [op |-> "report", text |-> t, loaded |-> word,
                      word |-> [word EXCEPT !.moderation_status = "pending"]]]
               /\ pc' = [pc EXCEPT ![p] = "report_ready"]
               /\ UNCHANGED last
          ELSE Finish(p, "report", "ok")
    /\ UNCHANGED <<words, transactions, message_reports, now, rowlock, uniq, limiter, payment_intent>>

\* the second db.commit(): the UPDATE of moderation_status
ReportCommit(p) ==
    /\ pc[p] = "report_ready"
    /\ LET s == sess[p] IN
        /\ rowlock[s.text] = 0
        /\ words' = [words EXCEPT ![s.text] = FlushUpdate(words[s.text], s.loaded, s.word)]
    /\ Finish(p, "report", "ok")
    /\ UNCHANGED <<transactions, message_reports, now, rowlock, uniq, limiter, payment_intent>>

\* neither the route nor the service catches a store error
ReportFail(p) ==
    /\ pc[p] \in {"report_checked", "report_added", "report_ready"}
    /\ Finish(p, "report", "RawException")
    /\ UNCHANGED <<words, transactions, message_reports, now, rowlock, uniq, limiter, payment_intent>>

\* -------------------------------------------- AdminService.moderate_message
\* the "protect" branch writing the price paid back into the word
ProtectWord_price(word, t) ==
    LET locked == word.lockout_ends_at # NullTime /\ word.lockout_ends_at > t
        price_paid == word.price - 1
    IN [word EXCEPT !.moderation_status = "protected",
                    !.moderated_at = t,
                    !.price = price_paid,
                    !.lockout_ends_at = IF locked THEN t + price_paid ELSE @]

\* the "protect" branch: status, stamp and the restarted countdown
ProtectWord(word, t) ==
    LET locked == word.lockout_ends_at # NullTime /\ word.lockout_ends_at > t
        price_paid == word.price - 1
    IN [word EXCEPT !.moderation_status = "protected",
                    !.moderated_at = t,
                    !.lockout_ends_at = IF locked THEN t + price_paid ELSE @]

\* the "reject" branch blanking the rejected message
JudgeWord_clears_message(word, action, t) ==
    [word EXCEPT !.moderation_status = IF action = "approve" THEN "approved" ELSE "rejected",
                 !.moderated_at = t,
                 !.owner_message = IF action = "approve" THEN @ ELSE Null]

\* the "approve" / "reject" branch
JudgeWord(word, action, t) ==
    [word EXCEPT !.moderation_status = IF action = "approve" THEN "approved" ELSE "rejected",
                 !.moderated_at = t]

\* SELECT by id, the in-session changes and (protect) the bulk DELETE
ModRead(p, word_id, action) ==
    /\ pc[p] = "idle"
    /\ IF word_id \notin DOMAIN words
       THEN Finish(p, "moderate", "NotFound")
       ELSE IF action \notin {"approve", "reject", "protect"}
       THEN Finish(p, "moderate", "InvalidAction")
       ELSE /\ sess' = [sess EXCEPT ![p] =
                    [op |-> "moderate", text |-> word_id, action |-> action,
                     loaded |-> words[word_id],
                     deleted |-> IF action = "protect" THEN message_reports[word_id] ELSE 0,
                     word |-> IF action = "protect"
                              THEN ProtectWord(words[word_id], now)
                              ELSE JudgeWord(words[word_id], action, now)]]
            /\ pc' = [pc EXCEPT ![p] = "mod_ready"]
            /\ UNCHANGED last
    /\ UNCHANGED <<words, transactions, message_reports, now, rowlock, uniq, limiter, payment_intent>>

\* the commit without the DELETE of the reports
ModCommit_keep_reports(p) ==
    /\ pc[p] = "mod_ready"
    /\ LET s == sess[p] IN
        /\ rowlock[s.text] = 0
        /\ words' = [words EXCEPT ![s.text] = FlushUpdate(words[s.text], s.loaded, s.word)]
    /\ Finish(p, "moderate", "ok")
    /\ UNCHANGED <<transactions, message_reports, now, rowlock, uniq, limiter, payment_intent>>

\* db.commit(): the UPDATE and the DELETE become visible together
ModCommit(p) ==
    /\ pc[p] = "mod_ready"
    /\ LET s == sess[p] IN
        /\ rowlock[s.text] = 0
        /\ words' = [words EXCEPT ![s.text] = FlushUpdate(words[s.text], s.loaded, s.word)]
        /\ message_reports' = [message_reports EXCEPT ![s.text] = @ - s.deleted]
    /\ Finish(p, "moderate", "ok")
    /\ UNCHANGED <<transactions, now, rowlock, uniq, limiter, payment_intent>>

ModFail(p) ==
    /\ pc[p] = "mod_ready"
    /\ Finish(p, "moderate", "RawException")
    /\ UNCHANGED <<words, transactions, message_reports, now, rowlock, uniq, limiter, payment_intent>>

\* ------------------------------------------------------------ read models
RECURSIVE SumPaid(_, _)
\* func.sum(Transaction.price_paid) over the rows that pass the filter
SumPaid(txs, only_real) ==
    IF txs = <<>> THEN 0
    ELSE (IF only_real /\ Head(txs).is_admin_action THEN 0 ELSE Head(txs).price_paid)
         + SumPaid(Tail(txs), only_real)

\* AdminService.get_income_stats: total_income
total_income == SumPaid(transactions, TRUE)

\* get_platform_stats: total_revenue
total_revenue == SumPaid(transactions, FALSE)

\* the availability decision of each consumer, for a lockout_ends_at value
claim_available(l) == is_word_available(l, now)

\* the intent refused until the instant after the lockout's end
intent_available_strict(l) == l = NullTime \/ l < now
intent_available(l) == is_word_available(l, now)
feed_available(l) == is_word_available(l, now)
search_available(l) == l = NullTime \/ (l # NullTime /\ l <= now)
search_locked(l) == l # NullTime /\ l > now
random_available(l) == l = NullTime \/ (l # NullTime /\ l <= now)
stats_owned(l) == l # NullTime /\ l > now
dashboard_available(l) == l = NullTime \/ (l # NullTime /\ l < now)

\* ---------------------------------------------------- message visibility
\* the message a reader may see: unchanged when approved or protected, or
\* when unset and below the report threshold; otherwise suppressed
filter_message_for_moderation(message, status, report_count) ==
    IF status \in {"approved", "protected"} THEN message
    ELSE IF status \in {"pending", "rejected"} THEN Null
    ELSE IF report_count >= report_threshold THEN Null
    ELSE message

\* MessageReport rows of a word, counted by the read paths
report_count_of(t) == message_reports[t]

\* GET /api/words/{w} handing out owner_message as stored
detail_message_raw(t) == words[t].owner_message

\* owner_message in the response of GET /api/words/{w}
detail_message(t) ==
    filter_message_for_moderation(words[t].owner_message,
                                  words[t].moderation_status, report_count_of(t))

\* owner_message of a word in the response of GET /api/words/search
search_message(t) ==
    filter_message_for_moderation(words[t].owner_message,
                                  words[t].moderation_status, report_count_of(t))

\* owner_message in the response of GET /api/words/random
random_message(t) ==
    filter_message_for_moderation(words[t].owner_message,
                                  words[t].moderation_status, report_count_of(t))

\* owner_message of a word in the response of GET /api/leaderboard/expensive
expensive_message(t) ==
    filter_message_for_moderation(words[t].owner_message,
                                  words[t].moderation_status, report_count_of(t))

\* ---------------------------------------------------------- specifications
Ownership(P) ==
    \/ \E p \in P, raw \in InputTexts, buyer \in Buyers : StealBegin(p, raw, buyer)
    \/ \E p \in P : StealCheck(p)
    \/ \E p \in P : StealCommit(p)
    \/ \E p \in P : StealFail(p)
    \/ \E p \in P, raw \in InputTexts, buyer \in Buyers,
          oracle \in {"clean", "toxic", "error"} : AddCheck(p, raw, buyer, oracle)
    \/ \E p \in P : AddFlush(p)
    \/ \E p \in P : AddCommit(p)
    \/ \E p \in P : AddFail(p)
    \/ \E p \in P, raw \in InputTexts, new_price \in NewPrices, owner \in ResetOwners :
          ResetRead(p, raw, new_price, owner)
    \/ \E p \in P : ResetCommit(p)
    \/ \E p \in P : ResetFail(p)

\* a claim that found the row locked by another session is granted the lock
LockWait(P) == \E p \in P : StealLock(p)

Moderation(P) ==
    \/ \E p \in P, raw \in ReportTexts : ReportCheck(p, raw)
    \/ \E p \in P : ReportInsert(p)
    \/ \E p \in P : ReportCount(p)
    \/ \E p \in P : ReportCommit(p)
    \/ \E p \in P : ReportFail(p)
    \/ \E p \in P, word_id \in WordIds, action \in Actions : ModRead(p, word_id, action)
    \/ \E p \in P : ModCommit(p)
    \/ \E p \in P : ModFail(p)

\* two concurrent requests against the Ownership Engine
Next == Tick \/ Ownership(Procs) \/ LockWait(Procs)

Spec == Init /\ [][Next]_vars

\* one request at a time (so no request ever waits for a row lock), every
\* operation of both engines
NextAll == Tick \/ Ownership({1}) \/ Moderation({1})

SpecAll == Init /\ [][NextAll]_vars

\* the claims alone
Claims(P) ==
    \/ \E p \in P, raw \in InputTexts, buyer \in Buyers : StealBegin(p, raw, buyer)
    \/ \E p \in P : StealLock(p)
    \/ \E p \in P : StealCheck(p)
    \/ \E p \in P : StealCommit(p)
    \/ \E p \in P : StealFail(p)

\* two concurrent claims against a registry of two words
NextPair == Tick \/ Claims(Procs)

SpecPair == InitPair /\ [][NextPair]_vars

\* the content gate with a classifier that blocks or raises, and the mint
Gate(P) ==
    \/ \E content \in ContentKinds, oracle \in {"toxic", "error"} :
          ValidateContent(content, oracle)
    \/ \E p \in P, raw \in InputTexts, buyer \in Buyers, oracle \in {"toxic", "error"} :
          AddCheck(p, raw, buyer, oracle)
    \/ \E p \in P : AddFlush(p)
    \/ \E p \in P : AddCommit(p)
    \/ \E p \in P : AddFail(p)

NextGate == Tick \/ Gate(Procs)

SpecGate == Init /\ [][NextGate]_vars

\* ------------------------------------------------------------ rate limiter
\* RateLimits: the count of each "count/period" string
RateLimits ==
    [PURCHASE_WORD |-> 5, ADD_WORD |-> 5, WORD_SEARCH |-> 60,
     WORD_DETAIL |-> 100, RANDOM_WORD |-> 100, LEADERBOARD |-> 30]

\* the 429 sent one request late
WithinLimit_late(hits, amount) == hits <= amount + 1

\* fixed window: the hit is let through while the window's counter, this hit
\* included, does not exceed the amount
WithinLimit(hits, amount) == hits <= amount

\* the registry with the limiter's storage empty, watched for one endpoint
\* and one remote address
InitRate ==
    /\ words = [t \in {"a"} |-> Word(InitialPrice, Null, Null, NullTime)]
    /\ transactions = <<>>
    /\ message_reports = [t \in Texts |-> 0]
    /\ now = 0
    /\ rowlock = [t \in Texts |-> 0]
    /\ uniq = [t \in Texts |-> 0]
    /\ pc = [p \in Procs |-> "idle"]
    /\ sess = [p \in Procs |-> NoSession]
    /\ last = Response("none", "none")
    /\ limiter \in {NoWindow(endpoint) : endpoint \in DOMAIN RateLimits}
    /\ payment_intent = NoIntent

\* one request of the address to the endpoint, as far as the limiter's
\* decorator: the hit opens a window of one period when none is running
\* (here one tick of the clock is one period of the endpoint), is counted
\* whether or not it is let through, and is answered 429 once over the amount
LimitedRequest ==
    /\ limiter.endpoint # "none"
    /\ LET endpoint == limiter.endpoint
           fresh == limiter.expires = NullTime \/ limiter.expires <= now
           hits == IF fresh THEN 1 ELSE limiter.hits + 1
           expires == IF fresh THEN now + 1 ELSE limiter.expires
       IN /\ hits <= RateLimits[endpoint] + MaxExcess
          /\ limiter' = [endpoint |-> endpoint, hits |-> hits, expires |-> expires]
          /\ last' = Response(endpoint,
                        IF WithinLimit(hits, RateLimits[endpoint])
                        THEN "passed" ELSE "RateLimited")
    /\ UNCHANGED <<words, transactions, message_reports, now, rowlock, uniq, pc, sess, payment_intent>>

NextRate == Tick \/ LimitedRequest

SpecRate == InitRate /\ [][NextRate]_vars

\* ------------------------------------------- reports against adjudications
\* the registry after ann claimed "a" at the initial price
InitMod ==
    /\ words = [t \in {"a"} |->
                  Word(steal_new_price(InitialPrice), "ann", "hi",
                       steal_lockout_ends_at(0, InitialPrice))]
    /\ transactions = <<Transaction("a", "ann", InitialPrice, FALSE)>>
    /\ message_reports = [t \in Texts |-> 0]
    /\ now = 0
    /\ rowlock = [t \in Texts |-> 0]
    /\ uniq = [t \in Texts |-> 0]
    /\ pc = [p \in Procs |-> "idle"]
    /\ sess = [p \in Procs |-> NoSession]
    /\ last = Response("none", "none")
    /\ limiter = NoWindow("none")
    /\ payment_intent = NoIntent

\* POST /api/words/{word_text}/report
Reports(P) ==
    \/ \E p \in P, raw \in ReportTexts : ReportCheck(p, raw)
    \/ \E p \in P : ReportInsert(p)
    \/ \E p \in P : ReportCount(p)
    \/ \E p \in P : ReportCommit(p)
    \/ \E p \in P : ReportFail(p)

\* POST /api/admin/moderate
Adjudicate(P) ==
    \/ \E p \in P, word_id \in WordIds, action \in Actions : ModRead(p, word_id, action)
    \/ \E p \in P : ModCommit(p)
    \/ \E p \in P : ModFail(p)

\* concurrent reports and one moderator
NextMod == Tick \/ Reports(Procs) \/ Adjudicate({1})

SpecMod == InitMod /\ [][NextMod]_vars

\* --------------------------------------------------------------- paid flow
\* owner_name / owner_message of the paying buyer's confirm request
Payer == <<"pat", "paid">>

\* POST /api/payment/create-intent: the amount is fixed from the row read now
\* and a PaymentIntent is created with it (one intent is followed)
CreateIntent(raw, is_new_word) ==
    /\ payment_intent.status = "none"
    /\ LET t == Lower(raw) IN
        IF is_new_word
        THEN IF t \in DOMAIN words
             THEN /\ last' = Response("intent", "Conflict")
                  /\ UNCHANGED payment_intent
             ELSE /\ payment_intent' = [status |-> "requires_payment", word |-> raw,
                                        is_new_word |-> TRUE, amount |-> 5000]
                  /\ last' = Response("intent", "ok")
        ELSE IF t \notin DOMAIN words
             THEN /\ last' = Response("intent", "NotFound")
                  /\ UNCHANGED payment_intent
             ELSE IF ~intent_available(words[t].lockout_ends_at)
             THEN /\ last' = Response("intent", "Locked")
                  /\ UNCHANGED payment_intent
             ELSE /\ payment_intent' = [status |-> "requires_payment", word |-> raw,
                                        is_new_word |-> FALSE,
                                        amount |-> words[t].price * 100]
                  /\ last' = Response("intent", "ok")
    /\ last' # last
    /\ UNCHANGED <<words, transactions, message_reports, now, rowlock, uniq, pc, sess, limiter>>

\* the payment provider: the buyer pays the intent's amount
PaymentSucceeds ==
    /\ payment_intent.status = "requires_payment"
    /\ payment_intent' = [payment_intent EXCEPT !.status = "succeeded"]
    /\ UNCHANGED <<words, transactions, message_reports, now, rowlock, uniq, pc, sess, last, limiter>>

\* POST /api/payment/confirm-purchase: the intent's status is tested, the
\* texts are validated, and add_word or steal_word is called with the word
\* and the flag of this request
ConfirmPurchase(p, raw, is_new_word, oracle) ==
    /\ payment_intent.status # "none"
    /\ IF payment_intent.status # "succeeded"
       THEN /\ pc[p] = "idle"
            /\ Finish(p, "confirm", "PaymentIncomplete")
            /\ last' # last
            /\ UNCHANGED <<words, transactions, message_reports, now, rowlock, uniq, limiter, payment_intent>>
       ELSE IF ~validate_content("plain", oracle)[1]
       THEN /\ pc[p] = "idle"
            /\ Finish(p, "confirm", "ValidationFailed")
            /\ last' # last
            /\ UNCHANGED <<words, transactions, message_reports, now, rowlock, uniq, limiter, payment_intent>>
       ELSE IF is_new_word
       THEN AddCheck(p, raw, Payer, "clean")
       ELSE StealBegin(p, raw, Payer)

\* the paying buyer
Pay(P) ==
    \/ \E raw \in InputTexts, is_new_word \in BOOLEAN : CreateIntent(raw, is_new_word)
    \/ PaymentSucceeds
    \/ \E p \in P, raw \in InputTexts, is_new_word \in BOOLEAN, oracle \in {"clean", "toxic"} :
          ConfirmPurchase(p, raw, is_new_word, oracle)
    \/ \E p \in P : AddFlush(p)
    \/ \E p \in P : AddCommit(p)
    \/ \E p \in P : AddFail(p)

\* the paying buyer among the buyers of the unpaid route
NextPay == Tick \/ Claims(Procs) \/ Pay(Procs)

SpecPay == Init /\ [][NextPay]_vars

\* ------------------------------------------------------- claims, scheduled
\* a request in progress keeps running: its check and its commit are taken
\* once enabled (a store error may end it instead, nothing makes one occur);
\* the store grants a released row lock to a waiting SELECT ... FOR UPDATE,
\* so a waiter the lock is free for again and again gets it
Fairness ==
    \A p \in Procs :
        /\ WF_vars(StealCheck(p))
        /\ WF_vars(StealCommit(p))
        /\ SF_vars(StealLock(p))

SpecFair == InitPair /\ [][NextPair]_vars /\ Fairness

\* ======================================================================
\*                              properties
\* ======================================================================
Ok(op) == Response(op, "ok")

\* request p returns in this step
Returns(p, from) == pc[p] = from /\ pc'[p] = "idle"

\* C1: a successful claim of an available item of price P sets the price to
\* P+1, the owner and message to the buyer's, the lockout to (the claim's)
\* now + P hours, and appends exactly one Transaction with price_paid = P,
\* buyer_name = buyer and is_admin_action = FALSE.
C1_ClaimEffect ==
    [][\A p \in Procs :
        (Returns(p, "steal_ready") /\ last' = Ok("steal")) =>
            LET t == sess[p].text
                P == words[t].price
            IN /\ is_word_available(sess[p].loaded.lockout_ends_at, sess[p].at)
               /\ words'[t].price = P + 1
               /\ words'[t].owner_name = sess[p].name
               /\ words'[t].owner_message = sess[p].msg
               /\ words'[t].lockout_ends_at = sess[p].at + P
               /\ transactions' = Append(transactions,
                     [word_id |-> t, buyer_name |-> sess[p].name,
                      price_paid |-> P, is_admin_action |-> FALSE])]_vars

C1_Witness ==
    /\ last = Ok("steal")
    /\ Len(transactions) > 0
    /\ LET tx == transactions[Len(transactions)] IN
        /\ ~tx.is_admin_action
        /\ tx.price_paid = 2
        /\ words[tx.word_id].price = 3
        /\ words[tx.word_id].owner_name = tx.buyer_name
        /\ words[tx.word_id].lockout_ends_at = now + 2

\* C2: claims of one item never record the same pre-claim price twice: of
\* two purchase Transactions of the same item with no administrative reset
\* of that item between them, the later one has a different price_paid.
C2_NoDuplicatePrice ==
    \A i, j \in 1..Len(transactions) :
        ( /\ i < j
          /\ transactions[i].word_id = transactions[j].word_id
          /\ ~transactions[i].is_admin_action
          /\ ~transactions[j].is_admin_action
          /\ transactions[i].price_paid = transactions[j].price_paid )
        => \E k \in (i+1)..(j-1) :
               /\ transactions[k].is_admin_action
               /\ transactions[k].word_id = transactions[i].word_id

\* two claims of the same item in flight: one holds the row, one waits
C2_Witness ==
    \E p, q \in Procs :
        /\ pc[p] = "steal_wait"
        /\ pc[q] = "steal_ready"
        /\ sess[p].text = sess[q].text

C4_ClaimRefused ==
    [][\A p \in Procs :
        /\ \A raw \in InputTexts, buyer \in Buyers :
              (StealBegin(p, raw, buyer) /\ Lower(raw) \notin DOMAIN words) =>
                  /\ last' = Response("steal", "NotFound")
                  /\ pc'[p] = "idle"
                  /\ words' = words /\ transactions' = transactions
        /\ ( /\ pc[p] = "steal_locked" /\ pc'[p] # pc[p]
             /\ words[sess[p].text].lockout_ends_at # NullTime
             /\ words[sess[p].text].lockout_ends_at > now ) =>
                  /\ last' \in {Response("steal", "Locked"),
                                Response("steal", "StorageFailure")}
                  /\ pc'[p] = "idle"
                  /\ words' = words /\ transactions' = transactions]_vars

C4_Witness ==
    /\ last = Response("steal", "Locked")
    /\ \E t \in DOMAIN words :
          words[t].lockout_ends_at # NullTime /\ words[t].lockout_ends_at > now
\* C5: a mint of a text that is already registered, whether the existence
\* check sees it or only the INSERT does (the other mint committed in
\* between), returns Conflict, adds no Item and appends no Transaction.
C5_MintConflict ==
    [][\A p \in Procs :
        /\ \A raw \in InputTexts, buyer \in Buyers, oracle \in {"clean", "toxic", "error"} :
              (AddCheck(p, raw, buyer, oracle) /\ Strip(Lower(raw)) \in DOMAIN words) =>
                  /\ last' = Response("add", "Conflict")
                  /\ words' = words /\ transactions' = transactions
        /\ (AddFlush(p) /\ sess[p].text \in DOMAIN words) =>
                  /\ last' = Response("add", "Conflict")
                  /\ words' = words /\ transactions' = transactions]_vars

\* C6: a successful mint creates one Item with price 51, the given owner and
\* message and a lockout of (the mint's) now + 50 hours, appends exactly one
\* Transaction with price_paid = 50 and is_admin_action = FALSE, and the new
\* Item is not available.
C6_MintEffect ==
    [][\A p \in Procs :
        (Returns(p, "add_flushed") /\ last' = Ok("add")) =>
            LET t == sess[p].text IN
               /\ t \notin DOMAIN words
               /\ DOMAIN words' = DOMAIN words \cup {t}
               /\ \A u \in DOMAIN words : words'[u] = words[u]
               /\ words'[t].price = 51
               /\ words'[t].owner_name = sess[p].name
               /\ words'[t].owner_message = sess[p].msg
               /\ words'[t].lockout_ends_at = sess[p].at + 50
               /\ transactions' = Append(transactions,
                     [word_id |-> t, buyer_name |-> sess[p].name,
                      price_paid |-> 50, is_admin_action |-> FALSE])
               /\ ~is_word_available(words'[t].lockout_ends_at, now')]_vars

C6_Witness ==
    /\ last = Ok("add")
    /\ "b" \in DOMAIN words
    /\ words["b"].price = 51
    /\ words["b"].lockout_ends_at = now + 50
    /\ \E i \in 1..Len(transactions) :
          transactions[i] = Transaction("b", words["b"].owner_name, 50, FALSE)

\* C7: the Transaction of an administrative reset is an admin action, and
\* both revenue aggregates (admin income statistics, public platform
\* statistics) are the sum of price_paid over the non-admin Transactions.
C7_RevenueExcludesAdmin ==
    [][/\ \A p \in Procs :
            (Returns(p, "reset_ready") /\ last' = Ok("reset")) =>
                /\ Len(transactions') = Len(transactions) + 1
                /\ transactions'[Len(transactions')].is_admin_action
       /\ total_income' = SumPaid(transactions', TRUE)
       /\ total_revenue' = SumPaid(transactions', TRUE)]_vars

\* C8: a successful reset sets the price to new_price; with an owner it sets
\* owner, message and a lockout of now + new_price hours, without one it
\* nulls all three; it appends one admin Transaction with price_paid =
\* new_price.  A reset of a missing item returns NotFound and changes nothing.
C8_ResetEffect ==
    [][\A p \in Procs :
        /\ (Returns(p, "reset_ready") /\ last' = Ok("reset")) =>
            LET s == sess[p]
                w == words'[s.text]
            IN /\ w.price = s.new_price
               /\ s.name # Null =>
                     /\ w.owner_name = s.name
                     /\ w.owner_message = s.msg
                     /\ w.lockout_ends_at = s.at + s.new_price
               /\ s.name = Null =>
                     /\ w.owner_name = Null
                     /\ w.owner_message = Null
                     /\ w.lockout_ends_at = NullTime
               /\ Len(transactions') = Len(transactions) + 1
               /\ transactions'[Len(transactions')].price_paid = s.new_price
               /\ transactions'[Len(transactions')].is_admin_action
        /\ \A raw \in InputTexts, new_price \in NewPrices, owner \in ResetOwners :
              (ResetRead(p, raw, new_price, owner) /\ Lower(raw) \notin DOMAIN words) =>
                  /\ last' = Response("reset", "NotFound")
                  /\ words' = words /\ transactions' = transactions]_vars

\* C9: every consumer classifies an item as available exactly when its
\* lockout_ends_at is null or <= now.
C9_OneAvailability ==
    \A t \in DOMAIN words :
        LET l == words[t].lockout_ends_at
            available == l = NullTime \/ l <= now
        IN /\ claim_available(l) = available
           /\ intent_available(l) = available
           /\ feed_available(l) = available
           /\ search_available(l) = available
           /\ search_locked(l) = ~available
           /\ random_available(l) = available
           /\ stats_owned(l) = ~available
           /\ dashboard_available(l) = available

\* C10: the price of an item goes down only in the committing step of an
\* administrative reset of that item.
C10_PriceMonotone ==
    [][\A t \in DOMAIN words :
        words'[t].price < words[t].price =>
            \E p \in Procs :
                /\ Returns(p, "reset_ready")
                /\ last' = Ok("reset")
                /\ sess[p].text = t]_vars

\* claims, a report and a protect left the raised price in place
C10_Witness ==
    /\ last = Ok("moderate")
    /\ words["a"].moderation_status = "protected"
    /\ words["a"].price = 3
    /\ \A i \in 1..Len(transactions) : ~transactions[i].is_admin_action

\* C11: in every state each item has owner_name null exactly when
\* owner_message is null, and an item with an owner has a lockout_ends_at.
C11_OwnerFields ==
    \A t \in DOMAIN words :
        /\ (words[t].owner_name = Null) <=> (words[t].owner_message = Null)
        /\ words[t].owner_name # Null => words[t].lockout_ends_at # NullTime

C14_ProtectClearsReports ==
    [][\A p \in Procs :
        /\ (Returns(p, "mod_ready") /\ last' = Ok("moderate")
              /\ sess[p].action = "protect") =>
              /\ words'[sess[p].text].moderation_status = "protected"
              /\ message_reports'[sess[p].text] = 0
        /\ \A t \in DOMAIN words' :
              words'[t].moderation_status = "protected" => message_reports'[t] = 0
        /\ (pc[p] = "report_checked" /\ pc'[p] = "report_added") =>
              message_reports'[sess[p].text] = message_reports[sess[p].text] + 1]_vars

\* a protect that found Report rows is about to commit their deletion
C14_Witness ==
    \E p \in Procs :
        /\ pc[p] = "mod_ready"
        /\ sess[p].action = "protect"
        /\ sess[p].deleted >= 1
        /\ message_reports[sess[p].text] = sess[p].deleted

\* price_paid of the latest Transaction of item t
LastPaid(t) ==
    LET rows == {i \in 1..Len(transactions) : transactions[i].word_id = t}
        i == CHOOSE i \in rows : \A j \in rows : j <= i
    IN transactions[i].price_paid

\* C15: a committed protect of a locked item sets lockout_ends_at to (the
\* adjudication's) now + the price paid by the operation that started the
\* lockout (the item's latest Transaction); on an item that is not locked
\* it leaves lockout_ends_at as it is.
C15_ProtectLockout ==
    [][\A p \in Procs :
        (Returns(p, "mod_ready") /\ last' = Ok("moderate")
            /\ sess[p].action = "protect") =>
            LET t == sess[p].text
                at == sess[p].word.moderated_at
                l == words[t].lockout_ends_at
            IN IF l # NullTime /\ l > at
               THEN words'[t].lockout_ends_at = at + LastPaid(t)
               ELSE words'[t].lockout_ends_at = l]_vars

\* C16: a report of an item without message, or of a protected item, is
\* rejected at once: no Report row is added and no item changes.
C16_ReportRejected ==
    [][\A p \in Procs, raw \in ReportTexts :
        ( /\ ReportCheck(p, raw)
          /\ Lower(raw) \in DOMAIN words
          /\ \/ words[Lower(raw)].owner_message = Null
             \/ words[Lower(raw)].moderation_status = "protected" ) =>
            /\ last' = Response("report", "Rejected")
            /\ pc'[p] = "idle"
            /\ message_reports' = message_reports
            /\ words' = words]_vars

\* the report of a protected message was turned away
C16_Witness ==
    /\ last = Response("report", "Rejected")
    /\ words["a"].owner_message # Null
    /\ words["a"].moderation_status = "protected"
    /\ message_reports["a"] = 0

C18_RejectedUntilClaim ==
    [][\A p \in Procs :
        /\ (pc[p] \in {"report_added", "report_ready"} /\ pc'[p] = "idle"
              /\ words[sess[p].text].moderation_status = "rejected") =>
              /\ words'[sess[p].text].moderation_status = "rejected"
              /\ filter_message_for_moderation(
                     words'[sess[p].text].owner_message,
                     words'[sess[p].text].moderation_status,
                     message_reports'[sess[p].text]) = Null
        /\ (Returns(p, "steal_ready") /\ last' = Ok("steal")) =>
              /\ words'[sess[p].text].owner_message = sess[p].msg
              /\ filter_message_for_moderation(
                     words'[sess[p].text].owner_message,
                     words'[sess[p].text].moderation_status,
                     message_reports'[sess[p].text]) = sess[p].msg]_vars

\* C19: adjudicate changes no price, owner_name, owner_message or
\* Transaction; approve and reject also leave lockout_ends_at and the Report
\* rows alone; an unknown id returns NotFound and an unrecognized action
\* InvalidAction, and neither changes anything.
C19_AdjudicateFrame ==
    [][\A p \in Procs :
        /\ \A word_id \in WordIds, action \in Actions :
              ModRead(p, word_id, action) =>
                  /\ word_id \notin DOMAIN words =>
                        (last' = Response("moderate", "NotFound") /\ pc'[p] = "idle")
                  /\ (word_id \in DOMAIN words
                        /\ action \notin {"approve", "reject", "protect"}) =>
                        (last' = Response("moderate", "InvalidAction") /\ pc'[p] = "idle")
                  /\ words' = words
                  /\ transactions' = transactions
                  /\ message_reports' = message_reports
        /\ (pc[p] = "mod_ready" /\ pc'[p] # pc[p]) =>
              LET t == sess[p].text IN
                  /\ transactions' = transactions
                  /\ \A u \in DOMAIN words : u # t => words'[u] = words[u]
                  /\ words'[t].price = words[t].price
                  /\ words'[t].owner_name = words[t].owner_name
                  /\ words'[t].owner_message = words[t].owner_message
                  /\ sess[p].action \in {"approve", "reject"} =>
                        /\ words'[t].lockout_ends_at = words[t].lockout_ends_at
                        /\ message_reports' = message_reports
                  /\ last' # Ok("moderate") =>
                        (words' = words /\ message_reports' = message_reports)]_vars

\* a reported message was rejected: message and reports are still there
C19_Witness ==
    /\ last = Ok("moderate")
    /\ words["a"].moderation_status = "rejected"
    /\ words["a"].owner_message # Null
    /\ message_reports["a"] >= 1

\* C20: a claim waits only for a claim that holds the lock of the same
\* item; while it holds its row the row is as it read it; its steps touch no
\* other item and no other lock; and what it commits is the effect of a
\* claim on the row alone.
C20_DisjointClaims ==
    [][\A p \in Procs :
        /\ \A raw \in InputTexts, buyer \in Buyers :
              (StealBegin(p, raw, buyer) /\ Lower(raw) \in DOMAIN words) =>
                  IF rowlock[Lower(raw)] # 0
                  THEN pc'[p] = "steal_wait"
                  ELSE pc'[p] = "steal_locked" /\ rowlock'[Lower(raw)] = p
        /\ pc[p] \in {"steal_locked", "steal_ready"} =>
              /\ rowlock[sess[p].text] = p
              /\ sess[p].loaded = words[sess[p].text]
        /\ (pc[p] \in {"steal_wait", "steal_locked", "steal_ready"} /\ pc'[p] # pc[p]) =>
              /\ \A u \in DOMAIN words : u # sess[p].text =>
                    (words'[u] = words[u] /\ rowlock'[u] = rowlock[u])
        /\ (Returns(p, "steal_ready") /\ last' = Ok("steal")) =>
              LET t == sess[p].text IN
                  /\ words'[t] = [words[t] EXCEPT
                                     !.price = words[t].price + 1,
                                     !.owner_name = sess[p].name,
                                     !.owner_message = sess[p].msg,
                                     !.lockout_ends_at = sess[p].at + words[t].price]
                  /\ transactions' = Append(transactions,
                        [word_id |-> t, buyer_name |-> sess[p].name,
                         price_paid |-> words[t].price, is_admin_action |-> FALSE])]_vars

\* a claim of one item was checked and committed while the other request
\* was holding the lock of the other item since an earlier hour
C20_Witness ==
    \E q \in Procs :
        /\ pc[q] = "steal_ready"
        /\ rowlock[sess[q].text] = q
        /\ sess[q].at < now
        /\ last = Ok("steal")
        /\ Len(transactions) = 1
        /\ transactions[1].word_id # sess[q].text
        /\ words[transactions[1].word_id].lockout_ends_at = now + 1

\* C21: a claim, mint, reset, report or adjudication that meets a store
\* failure returns the StorageFailure kind, has committed nothing before the
\* failure and changes nothing by it.
C21_FailureRollsBack ==
    [][\A p \in Procs :
        (pc[p] # "idle" /\ pc'[p] = "idle"
            /\ last'.kind \in {"StorageFailure", "RawException"}) =>
            /\ last'.kind = "StorageFailure"
            /\ pc[p] \notin {"report_added", "report_ready"}
            /\ words' = words
            /\ transactions' = transactions
            /\ message_reports' = message_reports]_vars

\* C22: with the classifier raising, a mint and validate_content end as they
\* do with an acceptable score; a score above the threshold rejects a text
\* that passes every other check.
C22_OracleFailOpen ==
    [][/\ \A p \in Procs, raw \in InputTexts, buyer \in Buyers :
            /\ AddCheck(p, raw, buyer, "error") => AddCheck(p, raw, buyer, "clean")
            /\ ( /\ AddCheck(p, raw, buyer, "toxic")
                 /\ Strip(Lower(raw)) \in {"a", "b"} \ DOMAIN words ) =>
                   (last' = Response("add", "ValidationFailed") /\ pc'[p] = "idle")
       /\ \A content \in ContentKinds :
            ValidateContent(content, "error") => ValidateContent(content, "clean")
       /\ validate_content("plain", "error") = <<TRUE, "">>
       /\ ValidateContent("plain", "toxic") =>
            last' = Response("validate", "ValidationFailed")]_vars

\* a word was minted although the classifier never returned an acceptable score
C22_Witness ==
    /\ last = Ok("add")
    /\ "b" \in DOMAIN words
    /\ words["b"].price = MintPrice

\* C23: a committed claim leaves the lockout it computed on the row; from
\* then on is_available, the check of a second claim and the creation of a
\* payment intent report the item not available at every instant before
\* lockout_ends_at and available from that instant on, the passing of time
\* alone making it so.
C23_LockoutObserved ==
    [][/\ \A p \in Procs :
            (Returns(p, "steal_ready") /\ last' = Ok("steal")) =>
                \A t \in {sess[p].text} :
                   LET l == sess[p].at + sess[p].loaded.price IN
                   /\ words'[t].lockout_ends_at = l
                   /\ (sess[p].loaded.price > 0 /\ now < l) =>
                         /\ ~is_word_available(l, now)
                         /\ ~claim_available(words[t].lockout_ends_at)'
                         /\ ~intent_available(words[t].lockout_ends_at)'
       /\ \A t \in DOMAIN words :
            LET l == words[t].lockout_ends_at IN
            /\ (l # NullTime /\ now < l) =>
                  /\ ~is_word_available(l, now)
                  /\ ~claim_available(l)
                  /\ ~intent_available(l)
            /\ (l # NullTime /\ now >= l) =>
                  /\ is_word_available(l, now)
                  /\ claim_available(l)
                  /\ intent_available(l)
            /\ (l # NullTime /\ now < l /\ now' >= l /\ words' = words) =>
                  /\ claim_available(words[t].lockout_ends_at)'
                  /\ intent_available(words[t].lockout_ends_at)'
       /\ \A p \in Procs :
            /\ (pc[p] \in {"idle", "steal_wait"} /\ pc'[p] = "steal_locked") =>
                  sess'[p].word = words[sess'[p].text]
            /\ StealCheck(p) =>
                  LET l == sess[p].word.lockout_ends_at IN
                  /\ (l # NullTime /\ now < l) =>
                        (pc'[p] = "idle" /\ last' = Response("steal", "Locked"))
                  /\ (l # NullTime /\ now >= l) => pc'[p] = "steal_ready"]_vars

\* a second claim is admitted at the very instant the first claim's lockout ends
C23_Witness ==
    \E p \in Procs :
        /\ pc[p] = "steal_ready"
        /\ Len(transactions) >= 1
        /\ sess[p].loaded.lockout_ends_at = now
        /\ sess[p].loaded.owner_name # Null

C25_ResetClaimSerial ==
    (/\ \A p \in Procs : pc[p] = "idle"
     /\ Len(transactions) = 2
     /\ \E i, j \in 1..2 :
           /\ transactions[i].is_admin_action
           /\ ~transactions[j].is_admin_action
           /\ transactions[i].word_id = "a"
           /\ transactions[j].word_id = "a") =>
        \E i, j \in 1..2 :
           LET R == transactions[i]
               C == transactions[j]
               w == words["a"]
           IN /\ R.is_admin_action
              /\ ~C.is_admin_action
              /\ \/ /\ C.price_paid = InitialPrice
                    /\ w.price = R.price_paid
                    /\ IF R.buyer_name = "ADMIN_RESET"
                       THEN /\ w.owner_name = Null
                            /\ w.owner_message = Null
                            /\ w.lockout_ends_at = NullTime
                       ELSE /\ w.owner_name = R.buyer_name
                            /\ w.owner_message \in {rq[2] : rq \in ResetOwners}
                            /\ w.lockout_ends_at # NullTime
                 \/ /\ C.price_paid = R.price_paid
                    /\ w.price = steal_new_price(R.price_paid)
                    /\ w.owner_name = C.buyer_name
                    /\ \E buyer \in Buyers :
                          buyer[1] = C.buyer_name /\ w.owner_message = buyer[2]
                    /\ w.lockout_ends_at # NullTime

\* C26: whatever the interleaving of reports and adjudications of an item, a
\* status set by adjudicate (approved, rejected, protected) is never replaced
\* by pending.
C26_AdjudicatedStays ==
    [][\A t \in DOMAIN words :
        words[t].moderation_status \in {"approved", "rejected", "protected"} =>
            words'[t].moderation_status # "pending"]_vars

\* C28: an item whose status is protected has no Report row.
C28_ProtectedNoReports ==
    \A t \in DOMAIN words :
        words[t].moderation_status = "protected" => message_reports[t] = 0

\* C27: with no request in flight and no reset in the log, an item's price is
\* the price_paid of its latest Transaction plus 1 (51 after a mint paid 50,
\* the initial price when it has none), and the price_paid of its successive
\* Transactions rise by exactly 1.
C27_PriceChain ==
    (/\ \A p \in Procs : pc[p] = "idle"
     /\ \A i \in 1..Len(transactions) : ~transactions[i].is_admin_action) =>
        \A t \in DOMAIN words :
            LET idx == {i \in 1..Len(transactions) : transactions[i].word_id = t}
                latest == CHOOSE i \in idx : \A j \in idx : j <= i
            IN /\ idx = {} => words[t].price = InitialPrice
               /\ idx # {} =>
                    /\ words[t].price = transactions[latest].price_paid + 1
                    /\ transactions[latest].price_paid = 50 => words[t].price = 51
               /\ \A i, j \in idx :
                    (i < j /\ ~\E k \in idx : i < k /\ k < j) =>
                        transactions[j].price_paid = transactions[i].price_paid + 1

\* two successive claims of "a", paid 1 and 2, left its price at 3
C27_Witness ==
    /\ \A p \in Procs : pc[p] = "idle"
    /\ Len(transactions) = 2
    /\ transactions[1] = Transaction("a", transactions[1].buyer_name, 1, FALSE)
    /\ transactions[2] = Transaction("a", transactions[2].buyer_name, 2, FALSE)
    /\ words["a"].price = 3

\* C29: every claim or mint performed for the paying buyer records as
\* price_paid the amount of the succeeded payment intent, and one intent
\* yields at most one such Transaction.
C29_PaidAmount ==
    LET paid == {i \in 1..Len(transactions) : transactions[i].buyer_name = Payer[1]}
    IN /\ \A i \in paid :
             /\ payment_intent.status = "succeeded"
             /\ transactions[i].price_paid * 100 = payment_intent.amount
       /\ Cardinality(paid) <= 1

\* C30: a claim ends by releasing every row lock it holds, and under fair
\* scheduling every claim in progress, waiting for the lock or holding it,
\* ends with success or one of NotFound, Locked, StorageFailure, holding no
\* lock.
C30_ClaimTerminates ==
    /\ [][\A p \in Procs :
            (pc[p] # "idle" /\ pc'[p] = "idle") =>
                \A t \in Texts : rowlock'[t] # p]_vars
    /\ \A p \in Procs :
          (pc[p] \in {"steal_wait", "steal_locked", "steal_ready"}) ~>
              (/\ pc[p] = "idle"
               /\ \A t \in Texts : rowlock[t] # p
               /\ last.op = "steal"
               /\ last.kind \in {"ok", "NotFound", "Locked", "StorageFailure"})

\* a claim waits for the row lock held by a claim that is about to commit
C30_Witness ==
    /\ pc[1] = "steal_wait"
    /\ pc[2] = "steal_ready"
    /\ rowlock[sess[1].text] = 2
    /\ sess[2].text = sess[1].text
====
